---- MODULE Spec2Model ----
(***************************************************************************)
(* Model of pychecksum (src/pychecksum.py): TrackPathHistory, the two      *)
(* coordinators FolderSyncObj and FolderSyncObj_LocalServerDiff, and the   *)
(* checksum functions they call, over a small file tree.                   *)
(*                                                                         *)
(* A path is the sequence of its components: "/s/a/x" is <<"s","a","x">>.  *)
(* No component name of the model is a prefix of another, so splitting a   *)
(* path string on a root's string (get_rel_path) cuts at the same places   *)
(* as splitting the component sequence on the root's components.           *)
(***************************************************************************)
EXTENDS Integers, Sequences, FiniteSets, TLC

VARIABLES fs, tph, fso, lsd, ret

vars == <<fs, tph, fso, lsd, ret>>

(***************************************************************************)
(* Bounds of the model.                                                    *)
(***************************************************************************)
\* file contents are 0..MaxContent; every local file holds OrigContent
MaxContent == 1

(***************************************************************************)
(* The file tree.                                                          *)
(***************************************************************************)
LocalRoot == <<"l">>
ServerRoot == <<"s">>
\* a path that never exists, and a path that is a regular file
NoRoot == <<"n">>
FileRoot == <<"f">>

\* the entries that can exist under a root, relative to it
RelUniverse == { <<"a">>, <<"a", "x">>, <<"a", ".h">>, <<"b">> }
\* those that can be directories, and those that can be regular files
RelDirs == { <<"a">>, <<"b">> }
RelFiles == { <<"a", "x">>, <<"a", ".h">>, <<"b">> }

Contents == 0..MaxContent
OrigContent == 0

NoEntry == [kind |-> "none", data |-> 0]
DirEntry == [kind |-> "dir", data |-> 0]
FileEntry(c) == [kind |-> "file", data |-> c]

Under(root) == { root \o r : r \in RelUniverse }
AllPaths == {LocalRoot, ServerRoot, NoRoot, FileRoot}
            \cup Under(LocalRoot) \cup Under(ServerRoot)

Parent(p) == SubSeq(p, 1, Len(p) - 1)
IsPrefix(r, p) == Len(r) <= Len(p) /\ SubSeq(p, 1, Len(r)) = r
Tail0(p, n) == SubSeq(p, n + 1, Len(p))

Lookup(f, p) == IF p \in DOMAIN f THEN f[p] ELSE NoEntry
Exists(f, p) == Lookup(f, p).kind # "none"
IsDir(f, p) == Lookup(f, p).kind = "dir"
IsFile(f, p) == Lookup(f, p).kind = "file"

\* a tree: an entry exists only inside an existing directory
WellFormed(f) ==
    \A root \in {LocalRoot, ServerRoot} : \A r \in RelUniverse :
        LET p == root \o r
        IN  /\ Exists(f, p) => IsDir(f, Parent(p))
            /\ IsDir(f, p) => r \in RelDirs
            /\ IsFile(f, p) => r \in RelFiles

\* the trees under one root whose files all hold a content of cs
TreesUnder(root, cs) ==
    { t \in [Under(root) -> {NoEntry, DirEntry} \cup { FileEntry(c) : c \in cs }] :
        \A r \in RelUniverse :
            LET p == root \o r
            IN  /\ (t[p].kind # "none" /\ Parent(p) # root) => t[Parent(p)].kind = "dir"
                /\ t[p].kind = "dir" => r \in RelDirs
                /\ t[p].kind = "file" => r \in RelFiles }

\* pathlib.Path(root).rglob('*'): everything below root; nothing when root
\* is missing or is a regular file
rglob(f, root) ==
    IF IsDir(f, root)
    THEN { p \in DOMAIN f : IsPrefix(root, p) /\ p # root /\ Exists(f, p) }
    ELSE {}

\* os.listdir(folder) of an existing directory: the names of its children
listdir(f, folder) ==
    { p[Len(p)] : p \in { q \in DOMAIN f : Len(q) = Len(folder) + 1
                                          /\ IsPrefix(folder, q)
                                          /\ Exists(f, q) } }

\* shutil.rmtree(path, ignore_errors=True): removes a directory with all it
\* holds; on a regular file or a missing path it fails, the error is
\* ignored and the tree is left as it is
rmtree(f, path) ==
    IF IsDir(f, path)
    THEN [p \in DOMAIN f |-> IF IsPrefix(path, p) THEN NoEntry ELSE f[p]]
    ELSE f

(***************************************************************************)
(* Lists made from sets.                                                   *)
(***************************************************************************)
\* the orders in which list(a_set) can enumerate S
Orders(S) ==
    { s \in [1..Cardinality(S) -> S] : \A i, j \in DOMAIN s : s[i] = s[j] => i = j }

Range(s) == { s[i] : i \in DOMAIN s }

(***************************************************************************)
(* TrackPathHistory                                                        *)
(***************************************************************************)
NoObj == [kind |-> "none"]

\* the list comprehensions of __init__ and _add_state_post
Contents_of(f, pathname, track_type) ==
    { x \in rglob(f, pathname) :
        \/ track_type = "directories" /\ IsDir(f, x)
        \/ track_type = "files" /\ IsFile(f, x) }

TrackPathHistory(f, path, track_type) ==
    [kind |-> "tph", pathname |-> path, track_type |-> track_type,
     pre |-> Contents_of(f, path, track_type)]

\* ls_new: set_post - set_pre, as a set (its list is one of Orders)
ls_new_all(f, self) == Contents_of(f, self.pathname, self.track_type)
ls_new(f, self) ==
    Contents_of(f, self.pathname, self.track_type) \ self.pre

\* rm_new: rmtree over every new entry, in the order of the list
RECURSIVE rm_list(_, _)
rm_list(f, paths) ==
    IF paths = <<>> THEN f
    ELSE rm_list(rmtree(f, Head(paths)), Tail(paths))

rm_new(f, self, order) == rm_list(f, order)

(***************************************************************************)
(* Checksums of files.                                                     *)
(***************************************************************************)
ChecksumTypes == {"md5", "sha256"}

\* checksum_type().update(...).hexdigest(): a digest names its algorithm
\* and is decided by the bytes read, and by nothing else
hexdigest(checksum_type, data) == <<checksum_type, data>>

\* get_checksum: open(fname, 'rb') and hash what is read
get_checksum(f, fname, checksum_type) ==
    IF IsFile(f, fname)
    THEN [err |-> "ok", digest |-> hexdigest(checksum_type, Lookup(f, fname).data)]
    ELSE [err |-> IF IsDir(f, fname) THEN "IsADirectoryError"
                  ELSE IF IsFile(f, Parent(fname)) THEN "NotADirectoryError"
                  ELSE "FileNotFoundError",
          digest |-> <<>>]

\* compare_file_checksums: file_pre is read first, then file_post
compare_file_checksums(f, file_pre, file_post, checksum_type) ==
    LET checksum_pre == get_checksum(f, file_pre, checksum_type)
        checksum_post == get_checksum(f, file_post, checksum_type)
    IN  IF checksum_pre.err # "ok" THEN [err |-> checksum_pre.err, value |-> FALSE]
        ELSE IF checksum_post.err # "ok" THEN [err |-> checksum_post.err, value |-> FALSE]
        ELSE [err |-> "ok", value |-> checksum_pre.digest = checksum_post.digest]

(***************************************************************************)
(* Paths.                                                                  *)
(***************************************************************************)
RECURSIVE CommonLen(_, _)
CommonLen(p, q) ==
    IF p = <<>> \/ q = <<>> \/ Head(p) # Head(q) THEN 0
    ELSE 1 + CommonLen(Tail(p), Tail(q))

\* os.path.relpath(path, start): ".." for every component of start below the
\* common prefix, then what path has below it
relpath_basename(path, start) == <<path[Len(path)]>>
relpath(path, start) ==
    LET c == CommonLen(path, start)
    IN  [i \in 1..(Len(start) - c) |-> ".."] \o Tail0(path, c)

\* os.path.join(a, b) for a relative b
join(a, b) == a \o b

(***************************************************************************)
(* The confirmation prompt and the removals that follow it.                *)
(***************************************************************************)
Answers == {"y", "n", "yes"}

AskEvent(path, answer) == [ev |-> "input", path |-> path, answer |-> answer]
RmEvent(path) == [ev |-> "rmtree", path |-> path, answer |-> ""]

\* one turn of the removal loops: the prompt, then shutil.rmtree when the
\* answer is 'y' (or at once when ask_before_rm is False)
confirm_and_rm_any(st, path, ask_before_rm, answers) ==
    IF ask_before_rm
    THEN IF answers[path] # "n"
         THEN [fs |-> rmtree(st.fs, path),
               log |-> st.log \o <<AskEvent(path, answers[path]), RmEvent(path)>>]
         ELSE [fs |-> st.fs, log |-> st.log \o <<AskEvent(path, answers[path])>>]
    ELSE [fs |-> rmtree(st.fs, path), log |-> st.log \o <<RmEvent(path)>>]

confirm_and_rm(st, path, ask_before_rm, answers) ==
    IF ask_before_rm
    THEN IF answers[path] = "y"
         THEN [fs |-> rmtree(st.fs, path),
               log |-> st.log \o <<AskEvent(path, answers[path]), RmEvent(path)>>]
         ELSE [fs |-> st.fs, log |-> st.log \o <<AskEvent(path, answers[path])>>]
    ELSE [fs |-> rmtree(st.fs, path), log |-> st.log \o <<RmEvent(path)>>]

(***************************************************************************)
(* FolderSyncObj                                                           *)
(***************************************************************************)
FolderSyncObj(f, dir_local, dir_server) ==
    [kind |-> "fso", local |-> dir_local, server |-> dir_server,
     serverpathhistobj |-> TrackPathHistory(f, dir_server, "files")]

FSO_get_diffs_serverpaths(f, self) == ls_new(f, self.serverpathhistobj)

\* get_diffs_localpaths, for the server paths in the order of their list
FSO_get_diffs_localpaths(self, diffs_serverpaths) ==
    [i \in DOMAIN diffs_serverpaths |->
        join(self.local, relpath(diffs_serverpaths[i], self.server))]

\* the verdict after one more compared path
FSO_verdict_last(acc, key, value) ==
    [acc EXCEPT !.paths = (key :> value) @@ acc.paths, !.transfer_ok = value]
FSO_verdict(acc, key, value) ==
    [acc EXCEPT !.paths = (key :> value) @@ acc.paths,
                !.transfer_ok = IF value = FALSE THEN FALSE ELSE acc.transfer_ok]

\* the loop of verify_checksums over the paired lists; an exception of
\* compare_file_checksums leaves the loop and the method
RECURSIVE FSO_loop(_, _, _, _, _, _)
FSO_loop(f, local, server, checksum_type, ind, acc) ==
    IF ind > Len(server) THEN acc
    ELSE IF ind > Len(local) THEN [acc EXCEPT !.err = "IndexError"]
    ELSE LET r == compare_file_checksums(f, local[ind], server[ind], checksum_type)
         IN  IF r.err # "ok" THEN [acc EXCEPT !.err = r.err]
             ELSE FSO_loop(f, local, server, checksum_type, ind + 1,
                           FSO_verdict(acc, server[ind], r.value))

\* rm_server_corrupt_files: the keys of the verdict in insertion order
RECURSIVE rm_server_corrupt_files(_, _, _, _, _)
rm_server_corrupt_files(st, keys, paths, ask_before_rm, answers) ==
    IF keys = <<>> THEN st
    ELSE rm_server_corrupt_files(
            IF paths[Head(keys)] = FALSE
            THEN confirm_and_rm(st, Head(keys), ask_before_rm, answers)
            ELSE st,
            Tail(keys), paths, ask_before_rm, answers)

NoVerdict == [paths |-> <<>>, transfer_ok |-> TRUE, err |-> "ok"]

(***************************************************************************)
(* Checksums of folders.                                                   *)
(***************************************************************************)
HiddenNames == {".h"}
\* str(...).startswith('.') of a path's last component
IsHidden(p) == p[Len(p)] \in HiddenNames

\* the places (0-based offsets) where sep occurs in s
Occurrences(s, sep) ==
    { i \in 0..(Len(s) - Len(sep)) : SubSeq(s, i + 1, i + Len(sep)) = sep }

Min(S) == CHOOSE m \in S : \A n \in S : m <= n

\* get_rel_path: str.split(parent)[1], what stands between the first
\* occurrence of parent and the next one (or the end)
get_rel_path(folder, parent_folder) ==
    LET occ == Occurrences(folder, parent_folder)
        first == Min(occ)
        rest == Tail0(folder, first + Len(parent_folder))
        occ2 == Occurrences(rest, parent_folder)
    IN  IF occ2 = {} THEN rest ELSE SubSeq(rest, 1, Min(occ2))

\* the files get_folder_checksum reads, with the key each is stored under
folder_files(f, folder, recursive, include_hidden) ==
    IF recursive
    THEN { x \in rglob(f, folder) : IsFile(f, x) /\ (include_hidden \/ ~IsHidden(x)) }
    ELSE { join(folder, <<fname>>) : fname \in
             { n \in listdir(f, folder) : IsFile(f, join(folder, <<n>>)) } }

folder_key(x, folder, recursive) ==
    IF recursive THEN get_rel_path(x, folder) ELSE <<x[Len(x)]>>

\* get_folder_checksum: the dict of digests, or the exception of os.listdir.
\* Two files stored under one key leave the digest of the one read last,
\* which the order of rglob decides.
get_folder_checksum(f, folder, checksum_type, recursive, include_hidden) ==
    IF ~recursive /\ ~IsDir(f, folder)
    THEN [err |-> IF IsFile(f, folder) THEN "NotADirectoryError"
                  ELSE "FileNotFoundError",
          checksums |-> <<>>]
    ELSE LET files == folder_files(f, folder, recursive, include_hidden)
             keys == { folder_key(x, folder, recursive) : x \in files }
         IN  [err |-> "ok",
              checksums |->
                [k \in keys |->
                    get_checksum(f,
                        CHOOSE x \in files : folder_key(x, folder, recursive) = k,
                        checksum_type).digest]]

\* the assert of compare_folder_checksums on the two key sets
keys_match_unchecked(checksums_pre, checksums_post) ==
    DOMAIN checksums_pre \subseteq DOMAIN checksums_post
keys_match(checksums_pre, checksums_post) ==
    DOMAIN checksums_pre = DOMAIN checksums_post

\* compare_folder_checksums (it leaves include_hidden at its default, False)
compare_folder_checksums(f, folder_pre, folder_post, checksum_type, recursive) ==
    LET pre == get_folder_checksum(f, folder_pre, checksum_type, recursive, FALSE)
        post == get_folder_checksum(f, folder_post, checksum_type, recursive, FALSE)
    IN  IF pre.err # "ok" THEN [err |-> pre.err, value |-> FALSE]
        ELSE IF post.err # "ok" THEN [err |-> post.err, value |-> FALSE]
        ELSE IF ~keys_match(pre.checksums, post.checksums)
        THEN [err |-> "AssertionError", value |-> FALSE]
        ELSE [err |-> "ok",
              value |-> \A fname \in DOMAIN pre.checksums :
                            pre.checksums[fname] = post.checksums[fname]]

(***************************************************************************)
(* FolderSyncObj_LocalServerDiff                                           *)
(***************************************************************************)
\* every name of the model, in the order list.sort() gives
NameOrder == <<".h", "a", "b", "x">>
Sorted(S) == SelectSeq(NameOrder, LAMBDA n : n \in S)

\* filecmp.dircmp(left, right).left_only: os.listdir of both sides (left
\* first), sorted; none of the model's names is on dircmp's ignore list
dircmp_left_only(f, left, right) ==
    LET bad == IF ~IsDir(f, left) THEN left ELSE right
    IN  IF ~IsDir(f, left) \/ ~IsDir(f, right)
        THEN [err |-> IF IsFile(f, bad) THEN "NotADirectoryError"
                      ELSE "FileNotFoundError",
              left_only |-> <<>>]
        ELSE [err |-> "ok",
              left_only |-> Sorted(listdir(f, left) \ listdir(f, right))]

\* list_diffs, get_diffs_localpaths and get_diffs_serverpaths: left_only is
\* computed once, at the first use, and kept
LSD_get_diffs_localpaths(self) ==
    [i \in DOMAIN self.left_only |-> join(self.local, <<self.left_only[i]>>)]
LSD_get_diffs_serverpaths(self) ==
    [i \in DOMAIN self.left_only |-> join(self.server, <<self.left_only[i]>>)]

\* __init__: FileNotFoundError is caught and printed, and the object is
\* left without diff_fullpath.local and .server (has_diffs is False)
FolderSyncObj_LocalServerDiff(dir_local, dir_server, cmp) ==
    LET self == [kind |-> "lsd", local |-> dir_local, server |-> dir_server,
                 has_diffs |-> cmp.err = "ok", left_only |-> cmp.left_only]
    IN  [kind |-> "lsd", local |-> dir_local, server |-> dir_server,
         has_diffs |-> cmp.err = "ok", left_only |-> cmp.left_only,
         diff_local |-> LSD_get_diffs_localpaths(self),
         diff_server |-> LSD_get_diffs_serverpaths(self)]

LSD_verdict(acc, key, value) ==
    [acc EXCEPT !.paths = (key :> value) @@ acc.paths,
                !.transfer_ok = IF value = FALSE THEN FALSE ELSE acc.transfer_ok]

\* the loop of verify_checksums; an exception of compare_folder_checksums
\* leaves the loop and the method
RECURSIVE LSD_loop(_, _, _, _, _, _, _)
LSD_loop(f, local, server, checksum_type, recursive_comp, ind, acc) ==
    IF ind > Len(local) THEN acc
    ELSE LET r == compare_folder_checksums(f, local[ind], server[ind],
                                           checksum_type, recursive_comp)
         IN  IF r.err # "ok" THEN [acc EXCEPT !.err = r.err]
             ELSE LSD_loop(f, local, server, checksum_type, recursive_comp,
                           ind + 1, LSD_verdict(acc, local[ind], r.value))

\* rm_new_folders: every expected server path, whatever its verdict
RECURSIVE rm_new_folders(_, _, _, _)
rm_new_folders(st, diffs_serverpath, ask_before_rm, answers) ==
    IF diffs_serverpath = <<>> THEN st
    ELSE rm_new_folders(
            confirm_and_rm(st, Head(diffs_serverpath), ask_before_rm, answers),
            Tail(diffs_serverpath), ask_before_rm, answers)

(***************************************************************************)
(* The result of the last call.                                            *)
(***************************************************************************)
NoRet == [op |-> "none"]

(***************************************************************************)
(* Initial state and the file system's other users.                        *)
(***************************************************************************)
Init ==
    /\ \E lt \in TreesUnder(LocalRoot, {OrigContent}) :
        fs = [p \in AllPaths |->
                IF p \in {LocalRoot, ServerRoot} THEN DirEntry
                ELSE IF p = FileRoot THEN FileEntry(OrigContent)
                ELSE IF p \in Under(LocalRoot) THEN lt[p]
                ELSE NoEntry]
    /\ tph = NoObj
    /\ fso = NoObj
    /\ lsd = NoObj
    /\ ret = NoRet

\* the transfer tool (or anyone) writes a file below the server root
EnvWrite ==
    \E r \in RelFiles, c \in Contents :
      LET p == ServerRoot \o r
      IN
        /\ ret = NoRet
        /\ IsDir(fs, Parent(p))
        /\ ~IsDir(fs, p)
        /\ r[Len(r)] \in HiddenNames => c = OrigContent
        /\ fs' = [fs EXCEPT ![p] = FileEntry(c)]
        /\ ret' = NoRet
        /\ UNCHANGED <<tph, fso, lsd>>

EnvMkdir ==
    \E r \in RelDirs :
        /\ ret = NoRet
        /\ IsDir(fs, Parent(ServerRoot \o r))
        /\ ~Exists(fs, ServerRoot \o r)
        /\ fs' = [fs EXCEPT ![ServerRoot \o r] = DirEntry]
        /\ ret' = NoRet
        /\ UNCHANGED <<tph, fso, lsd>>

\* removes a file, or a directory with all it holds
EnvRemove ==
    \E p \in Under(ServerRoot) :
        /\ ret = NoRet
        /\ Exists(fs, p)
        /\ fs' = [q \in DOMAIN fs |-> IF IsPrefix(p, q) THEN NoEntry ELSE fs[q]]
        /\ ret' = NoRet
        /\ UNCHANGED <<tph, fso, lsd>>

(***************************************************************************)
(* Calls on a TrackPathHistory.                                            *)
(***************************************************************************)
TrackArgs == {ServerRoot}
TrackTypes == {"files", "directories"}

NewTrackPathHistory ==
    \E path \in TrackArgs, track_type \in TrackTypes :
        /\ ret = NoRet
        /\ tph' = TrackPathHistory(fs, path, track_type)
        /\ fso' = NoObj
        /\ lsd' = NoObj
        /\ ret' = [op |-> "__init__", cls |-> "TrackPathHistory",
                   outcome |-> "returned"]
        /\ UNCHANGED fs

CallLsNew ==
    /\ ret = NoRet
    /\ tph.kind = "tph"
    /\ ret' = [op |-> "ls_new", outcome |-> "returned", new |-> ls_new(fs, tph)]
    /\ UNCHANGED <<fs, tph, fso, lsd>>

CallRmNew ==
    /\ ret = NoRet
    /\ tph.kind = "tph"
    /\ \E order \in Orders(ls_new(fs, tph)) :
        /\ fs' = rm_new(fs, tph, order)
        /\ ret' = [op |-> "rm_new", outcome |-> "returned",
                   new |-> ls_new(fs, tph)]
    /\ UNCHANGED <<tph, fso, lsd>>

(***************************************************************************)
(* Calls on a FolderSyncObj.                                               *)
(***************************************************************************)
\* <<dir_local, dir_server>>: the two roots, a missing local root, a missing
\* server root, and a server root that is a regular file
RootArgs == { <<LocalRoot, ServerRoot>>, <<NoRoot, ServerRoot>>,
              <<LocalRoot, NoRoot>>, <<LocalRoot, FileRoot>> }

NewFolderSyncObj ==
    \E args \in RootArgs :
      LET dir_local == args[1]
          dir_server == args[2]
      IN
        /\ ret = NoRet
        /\ fso' = FolderSyncObj(fs, dir_local, dir_server)
        /\ tph' = NoObj
        /\ lsd' = NoObj
        /\ ret' = [op |-> "__init__", cls |-> "FolderSyncObj",
                   outcome |-> "returned"]
        /\ UNCHANGED fs

\* a cleanup that follows every completed loop for which removal was asked
cleanup_due_any(acc, rm) == acc.err = "ok" /\ rm

\* whether the removal routine runs after the loop: the verdict is a
\* failure and the remove-on-failure flag is set
cleanup_due(acc, rm) == acc.err = "ok" /\ acc.transfer_ok = FALSE /\ rm

\* what verify_checksums leaves behind: its verdict when it returns, the
\* exception when it does not, and what it asked and removed (recursive is
\* recursive_comp; FolderSyncObj compares single files and has no such flag)
VerifyRet(cls, local, server, recursive, acc, rm, ask, log) ==
    [op |-> "verify_checksums", cls |-> cls, recursive |-> recursive,
     outcome |-> IF acc.err = "ok" THEN "returned" ELSE acc.err,
     local |-> local, server |-> server,
     paths |-> acc.paths, transfer_ok |-> acc.transfer_ok,
     rm |-> rm, ask |-> ask, log |-> log]

FSO_verify_checksums ==
    /\ ret = NoRet
    /\ fso.kind = "fso"
    /\ \E checksum_type \in ChecksumTypes,
          rm_files_if_integrity_bad \in BOOLEAN, ask_before_rm \in BOOLEAN,
          server \in Orders(FSO_get_diffs_serverpaths(fs, fso)) :
        LET local == FSO_get_diffs_localpaths(fso, server)
            acc == FSO_loop(fs, local, server, checksum_type, 1, NoVerdict)
            cleanup == cleanup_due(acc, rm_files_if_integrity_bad)
            asked == IF cleanup /\ ask_before_rm
                     THEN { k \in DOMAIN acc.paths : acc.paths[k] = FALSE }
                     ELSE {}
        IN  \E answers \in [asked -> Answers] :
              LET st == IF cleanup
                        THEN rm_server_corrupt_files([fs |-> fs, log |-> <<>>],
                                 server, acc.paths, ask_before_rm, answers)
                        ELSE [fs |-> fs, log |-> <<>>]
              IN  /\ fs' = st.fs
                  /\ ret' = VerifyRet("FolderSyncObj", local, server, TRUE, acc,
                                      rm_files_if_integrity_bad, ask_before_rm,
                                      st.log)
    /\ UNCHANGED <<tph, fso, lsd>>

(***************************************************************************)
(* Calls on a FolderSyncObj_LocalServerDiff.                               *)
(***************************************************************************)
NewFolderSyncObj_LocalServerDiff ==
    \E args \in RootArgs :
        LET dir_local == args[1]
            dir_server == args[2]
            cmp == dircmp_left_only(fs, dir_local, dir_server)
        IN  /\ ret = NoRet
            /\ IF cmp.err \in {"ok", "FileNotFoundError"}
               THEN /\ lsd' = FolderSyncObj_LocalServerDiff(dir_local, dir_server, cmp)
                    /\ tph' = NoObj
                    /\ fso' = NoObj
               ELSE UNCHANGED <<tph, fso, lsd>>
            /\ ret' = [op |-> "__init__", cls |-> "FolderSyncObj_LocalServerDiff",
                       outcome |-> IF cmp.err \in {"ok", "FileNotFoundError"}
                                   THEN "returned" ELSE cmp.err]
            /\ UNCHANGED fs

LSD_verify_checksums ==
    /\ ret = NoRet
    /\ lsd.kind = "lsd"
    /\ \E checksum_type \in ChecksumTypes, recursive_comp \in BOOLEAN,
          rm_folders_if_integrity_bad \in BOOLEAN, ask_before_rm \in BOOLEAN :
        IF ~lsd.has_diffs
        THEN /\ ret' = VerifyRet("FolderSyncObj_LocalServerDiff", <<>>, <<>>,
                                 recursive_comp, [NoVerdict EXCEPT !.err = "AttributeError"],
                                 rm_folders_if_integrity_bad, ask_before_rm, <<>>)
             /\ UNCHANGED fs
        ELSE
        LET local == lsd.diff_local
            server == lsd.diff_server
            acc == LSD_loop(fs, local, server, checksum_type, recursive_comp,
                            1, NoVerdict)
            cleanup == cleanup_due(acc, rm_folders_if_integrity_bad)
            asked == IF cleanup /\ ask_before_rm
                     THEN Range(LSD_get_diffs_serverpaths(lsd)) ELSE {}
        IN  \E answers \in [asked -> Answers] :
              LET st == IF cleanup
                        THEN rm_new_folders([fs |-> fs, log |-> <<>>],
                                 LSD_get_diffs_serverpaths(lsd),
                                 ask_before_rm, answers)
                        ELSE [fs |-> fs, log |-> <<>>]
              IN  /\ fs' = st.fs
                  /\ ret' = VerifyRet("FolderSyncObj_LocalServerDiff", local,
                                      server, recursive_comp, acc,
                                      rm_folders_if_integrity_bad,
                                      ask_before_rm, st.log)
    /\ UNCHANGED <<tph, fso, lsd>>

(***************************************************************************)
(* A direct call of compare_folder_checksums on a local folder and its     *)
(* server counterpart.                                                     *)
(***************************************************************************)
CompareArgs == { <<>>, <<"a">>, <<"b">> }

CallCompareFolderChecksums ==
    \E rel \in CompareArgs, checksum_type \in ChecksumTypes, recursive \in BOOLEAN :
        LET folder_pre == join(LocalRoot, rel)
            folder_post == join(ServerRoot, rel)
            r == compare_folder_checksums(fs, folder_pre, folder_post,
                                          checksum_type, recursive)
        IN  /\ ret = NoRet
            /\ tph = NoObj /\ fso = NoObj /\ lsd = NoObj
            /\ ret' = [op |-> "compare_folder_checksums",
                       outcome |-> IF r.err = "ok" THEN "returned" ELSE r.err,
                       folder_pre |-> folder_pre, folder_post |-> folder_post,
                       recursive |-> recursive, value |-> r.value]
            /\ UNCHANGED <<fs, tph, fso, lsd>>

\* the caller takes the result of the call (or its exception) and goes on
Return ==
    /\ ret # NoRet
    /\ ret.op # "get_diffs_localpaths"
    /\ ret' = NoRet
    /\ UNCHANGED <<fs, tph, fso, lsd>>

Next ==
    \/ EnvWrite
    \/ EnvMkdir
    \/ EnvRemove
    \/ NewTrackPathHistory
    \/ CallLsNew
    \/ CallRmNew
    \/ NewFolderSyncObj
    \/ FSO_verify_checksums
    \/ NewFolderSyncObj_LocalServerDiff
    \/ LSD_verify_checksums
    \/ CallCompareFolderChecksums
    \/ Return

Spec == Init /\ [][Next]_vars

(***************************************************************************)
(* get_folder_checksum on its own, over trees in which the name of the     *)
(* folder occurs again below it ("/s/a/s/x" under "/s").                   *)
(***************************************************************************)
\* the directories below the folder (they always exist) and the files that
\* may exist there
DeepDirs == { <<"s", "a">>, <<"s", "a", "s">> }
DeepFiles == { <<"s", ".h">>, <<"s", "b">>, <<"s", "a", "x">>,
               <<"s", "a", "s", "x">>, <<"s", "a", "s", "b">> }
FolderArgs == { <<"s">>, <<"s", "a">> }

InitFolder ==
    /\ \E t \in [DeepFiles -> {NoEntry} \cup { FileEntry(c) : c \in Contents }] :
        fs = [p \in {ServerRoot} \cup DeepDirs \cup DeepFiles |->
                IF p \in DeepFiles THEN t[p] ELSE DirEntry]
    /\ tph = NoObj
    /\ fso = NoObj
    /\ lsd = NoObj
    /\ ret = NoRet

CallGetFolderChecksum ==
    \E folder \in FolderArgs, checksum_type \in ChecksumTypes,
       recursive \in BOOLEAN, include_hidden \in BOOLEAN :
        LET r == get_folder_checksum(fs, folder, checksum_type, recursive,
                                     include_hidden)
        IN  /\ ret = NoRet
            /\ ret' = [op |-> "get_folder_checksum",
                       outcome |-> IF r.err = "ok" THEN "returned" ELSE r.err,
                       folder |-> folder, recursive |-> recursive,
                       include_hidden |-> include_hidden,
                       checksum_type |-> checksum_type,
                       checksums |-> r.checksums]
            /\ UNCHANGED <<fs, tph, fso, lsd>>

NextFolder ==
    \/ CallGetFolderChecksum
    \/ Return

SpecFolder == InitFolder /\ [][NextFolder]_vars

(***************************************************************************)
(* FolderSyncObj.verify_checksums step by step: its two snapshots of the   *)
(* server tree are two calls of ls_new, and other processes run between    *)
(* them.                                                                   *)
(***************************************************************************)
\* how many changes of the server tree may fall between the two snapshots
MaxBetween == 1

\* two lists of one process enumerate the elements they share in one order
SameOrder(o1, o2) ==
    \A i1, j1 \in DOMAIN o1, i2, j2 \in DOMAIN o2 :
        (o1[i1] = o2[i2] /\ o1[j1] = o2[j2] /\ i1 < j1) => i2 < j2

\* self.diff_fullpath.local = self.get_diffs_localpaths(): the first snapshot
FSO_verify_diffs_localpaths ==
    /\ ret = NoRet
    /\ fso.kind = "fso"
    /\ \E diffs_serverpaths \in Orders(FSO_get_diffs_serverpaths(fs, fso)) :
        ret' = [op |-> "get_diffs_localpaths",
                diffs_serverpaths |-> diffs_serverpaths,
                local |-> FSO_get_diffs_localpaths(fso, diffs_serverpaths),
                between |-> 0]
    /\ UNCHANGED <<fs, tph, fso, lsd>>

\* another process writes a file below the server root in between
BetweenWrite ==
    \E r \in RelFiles, c \in Contents :
      LET p == ServerRoot \o r
      IN
        /\ ret.op = "get_diffs_localpaths"
        /\ ret.between < MaxBetween
        /\ IsDir(fs, Parent(p))
        /\ ~IsDir(fs, p)
        /\ r[Len(r)] \in HiddenNames => c = OrigContent
        /\ fs' = [fs EXCEPT ![p] = FileEntry(c)]
        /\ ret' = [ret EXCEPT !.between = @ + 1]
        /\ UNCHANGED <<tph, fso, lsd>>

\* another process removes a file, or a directory with all it holds
BetweenRemove ==
    \E p \in Under(ServerRoot) :
        /\ ret.op = "get_diffs_localpaths"
        /\ ret.between < MaxBetween
        /\ Exists(fs, p)
        /\ fs' = [q \in DOMAIN fs |-> IF IsPrefix(p, q) THEN NoEntry ELSE fs[q]]
        /\ ret' = [ret EXCEPT !.between = @ + 1]
        /\ UNCHANGED <<tph, fso, lsd>>

\* self.diff_fullpath.server = self.get_diffs_serverpaths(), the second
\* snapshot, then the loop and the cleanup
FSO_verify_diffs_serverpaths ==
    /\ ret.op = "get_diffs_localpaths"
    /\ \E checksum_type \in ChecksumTypes,
          rm_files_if_integrity_bad \in BOOLEAN, ask_before_rm \in BOOLEAN,
          server \in { o \in Orders(FSO_get_diffs_serverpaths(fs, fso)) :
                          SameOrder(ret.diffs_serverpaths, o) } :
        LET local == ret.local
            acc == FSO_loop(fs, local, server, checksum_type, 1, NoVerdict)
            cleanup == cleanup_due(acc, rm_files_if_integrity_bad)
            asked == IF cleanup /\ ask_before_rm
                     THEN { k \in DOMAIN acc.paths : acc.paths[k] = FALSE }
                     ELSE {}
        IN  \E answers \in [asked -> Answers] :
              LET st == IF cleanup
                        THEN rm_server_corrupt_files([fs |-> fs, log |-> <<>>],
                                 server, acc.paths, ask_before_rm, answers)
                        ELSE [fs |-> fs, log |-> <<>>]
              IN  /\ fs' = st.fs
                  /\ ret' = VerifyRet("FolderSyncObj", local, server, TRUE, acc,
                                      rm_files_if_integrity_bad, ask_before_rm,
                                      st.log)
    /\ UNCHANGED <<tph, fso, lsd>>

NextBetween ==
    \/ EnvWrite
    \/ EnvMkdir
    \/ EnvRemove
    \/ NewFolderSyncObj
    \/ FSO_verify_diffs_localpaths
    \/ BetweenWrite
    \/ BetweenRemove
    \/ FSO_verify_diffs_serverpaths
    \/ Return

SpecBetween == Init /\ [][NextBetween]_vars

(***************************************************************************)
(* Properties.                                                             *)
(***************************************************************************)
\* every state holds a tree
TypeOK == WellFormed(fs)

\* the entries of the kind a TrackPathHistory tracks that exist below its root
Tracked(f, self) ==
    { p \in Under(self.pathname) :
        IF self.track_type = "files" THEN IsFile(f, p) ELSE IsDir(f, p) }

VerifyCalled == ret.op = "verify_checksums"
VerifyReturned == ret.op = "verify_checksums" /\ ret.outcome = "returned"
\* the coordinator verify_checksums was called on, and the key of pair i
Coordinator == IF ret.cls = "FolderSyncObj" THEN fso ELSE lsd
KeyOf(r, i) == IF r.cls = "FolderSyncObj" THEN r.server[i] ELSE r.local[i]

\* C1: ls_new() returns exactly the tracked entries present at the call and
\* absent from the baseline, and the baseline is the snapshot of __init__:
\* construction sets it to what exists then, and no later step (ls_new,
\* rm_new, a change of the tree) changes it.
C1_LsNewAgainstOriginalBaseline ==
    [][ /\ (ret'.op = "__init__" /\ ret'.cls = "TrackPathHistory" /\ ret = NoRet)
            => tph'.pre = Tracked(fs', tph')
        /\ (tph.kind = "tph" /\ tph'.kind = "tph" /\ ~(ret'.op = "__init__" /\ ret = NoRet))
            => tph'.pre = tph.pre
        /\ (ret'.op = "ls_new" /\ ret = NoRet)
            => ret'.new = Tracked(fs', tph) \ tph.pre
      ]_vars

\* C1 witness: ls_new reports a new entry while a baseline entry is gone
C1_Witness ==
    /\ ret.op = "ls_new"
    /\ ret.new # {}
    /\ \E p \in tph.pre : ~Exists(fs, p)

\* C2: when verify_checksums returns, transfer_ok is the AND of the
\* per-path booleans of the returned verdict (True for no path at all).
C2_TransferOkIsConjunction ==
    VerifyReturned =>
        (ret.transfer_ok = (\A k \in DOMAIN ret.paths : ret.paths[k]))

\* C2 witness: a returned verdict with a matching and a mismatching path
C2_Witness ==
    /\ VerifyReturned
    /\ ret.cls = "FolderSyncObj_LocalServerDiff"
    /\ \E k1, k2 \in DOMAIN ret.paths : ret.paths[k1] /\ ~ret.paths[k2]

\* the relative paths of all regular files below a folder
RelFilePaths(f, folder) ==
    { Tail0(p, Len(folder)) : p \in { q \in rglob(f, folder) : IsFile(f, q) } }

\* the key set of the digest map get_folder_checksum builds for a folder
DigestKeys(f, folder, recursive) ==
    DOMAIN get_folder_checksum(f, folder, "sha256", recursive, FALSE).checksums
Enumerable(f, folder, recursive) ==
    get_folder_checksum(f, folder, "sha256", recursive, FALSE).err = "ok"

\* C3 as stated: two trees whose sets of relative file paths differ never
\* get a boolean verdict from compare_folder_checksums.
C3_DifferentFileSetsNeverReturn ==
    (ret.op = "compare_folder_checksums"
     /\ RelFilePaths(fs, ret.folder_pre) # RelFilePaths(fs, ret.folder_post))
        => ret.outcome # "returned"

\* C3 amended: compare_folder_checksums returns a boolean only when the two
\* digest maps have identical key sets, and ends in AssertionError whenever
\* both maps were built and their key sets differ.
C3_DifferentKeySetsNeverReturn ==
    ret.op = "compare_folder_checksums" =>
        /\ ret.outcome = "returned" =>
              DigestKeys(fs, ret.folder_pre, ret.recursive)
                  = DigestKeys(fs, ret.folder_post, ret.recursive)
        /\ (/\ Enumerable(fs, ret.folder_pre, ret.recursive)
            /\ Enumerable(fs, ret.folder_post, ret.recursive)
            /\ DigestKeys(fs, ret.folder_pre, ret.recursive)
                  # DigestKeys(fs, ret.folder_post, ret.recursive))
              => ret.outcome = "AssertionError"

\* C3 witness: the server folder holds a file more than the local one and
\* the comparison ends in AssertionError
C3_Witness ==
    /\ ret.op = "compare_folder_checksums"
    /\ ret.outcome = "AssertionError"
    /\ DigestKeys(fs, ret.folder_pre, ret.recursive)
          \subseteq DigestKeys(fs, ret.folder_post, ret.recursive)

\* the exception the comparison of pair i raises ("ok" for none)
PairError(f, r, i) ==
    IF r.cls = "FolderSyncObj"
    THEN compare_file_checksums(f, r.local[i], r.server[i], "sha256").err
    ELSE compare_folder_checksums(f, r.local[i], r.server[i], "sha256",
                                  r.recursive).err

\* C4: in a run over several path pairs of which at least one can be
\* compared, an I/O error or a structural mismatch on another pair does not
\* abort the run: verify_checksums returns, and its verdict holds a result
\* for every pair whose own comparison raises nothing.
C4_PairErrorsDoNotAbortRun ==
    (/\ VerifyCalled /\ ret.outcome # "AttributeError"
     /\ Len(ret.server) >= 2
     /\ ret.outcome # "returned" =>
            \E j \in DOMAIN ret.server : PairError(fs, ret, j) = "ok")
    =>  /\ ret.outcome = "returned"
        /\ \A i \in DOMAIN ret.server :
              (ret.outcome = "returned" \/ PairError(fs, ret, i) = "ok")
                  => KeyOf(ret, i) \in DOMAIN ret.paths

\* C5: a cleanup run calls rmtree only on server paths whose verdict is
\* False, and every server path whose verdict is True and that existed
\* before the run exists after it.
C5_CleanupOnlyFailedPaths ==
    [][ (/\ ret = NoRet
         /\ ret'.op = "verify_checksums" /\ ret'.outcome = "returned"
         /\ ~ret'.transfer_ok /\ ret'.rm)
        => \A i \in DOMAIN ret'.server :
              ret'.paths[KeyOf(ret', i)] =>
                  /\ \A j \in DOMAIN ret'.log :
                        ~(ret'.log[j].ev = "rmtree"
                          /\ ret'.log[j].path = ret'.server[i])
                  /\ Exists(fs, ret'.server[i]) => Exists(fs', ret'.server[i])
      ]_vars

\* the server paths a cleanup run schedules for deletion
Scheduled(r) ==
    IF r.cls = "FolderSyncObj"
    THEN { k \in DOMAIN r.paths : ~r.paths[k] }
    ELSE Range(r.server)

\* C6: with ask_before_rm=True a cleanup prompts exactly once for each
\* scheduled path and for no other; rmtree is called on a path only right
\* after its own prompt was answered 'y'; a path answered otherwise keeps
\* everything it held.
C6_OnePromptPerScheduledPath ==
    [][ (/\ ret = NoRet
         /\ ret'.op = "verify_checksums" /\ ret'.outcome = "returned"
         /\ ~ret'.transfer_ok /\ ret'.rm /\ ret'.ask)
        => LET log == ret'.log
               prompts(p) == { j \in DOMAIN log :
                                 log[j].ev = "input" /\ log[j].path = p }
           IN  /\ \A p \in Scheduled(ret') : Cardinality(prompts(p)) = 1
               /\ \A j \in DOMAIN log : log[j].path \in Scheduled(ret')
               /\ \A j \in DOMAIN log :
                     log[j].ev = "rmtree" =>
                         /\ j > 1
                         /\ log[j - 1] = AskEvent(log[j].path, "y")
               /\ \A p \in Scheduled(ret') :
                     (\E j \in prompts(p) : log[j].answer # "y") =>
                         \A q \in DOMAIN fs : IsPrefix(p, q) => fs'[q] = fs[q]
      ]_vars

\* C6 witness: a refused path that exists, then a confirmed one removed
C6_Witness ==
    /\ VerifyReturned /\ ret.ask /\ ret.rm
    /\ \E i, j \in DOMAIN ret.log :
          /\ i < j
          /\ ret.log[i].ev = "input" /\ ret.log[i].answer = "yes"
          /\ Exists(fs, ret.log[i].path)
          /\ ret.log[j].ev = "rmtree" /\ ~Exists(fs, ret.log[j].path)

\* C7: after a FolderSyncObj run with removal enabled and confirmation
\* disabled that found one new file intact and another one corrupt,
\* transfer_ok is False and the corrupt server file is gone.
C7_CorruptServerFileDeleted ==
    (/\ VerifyReturned /\ ret.cls = "FolderSyncObj"
     /\ ret.rm /\ ~ret.ask
     /\ \E f1 \in DOMAIN ret.paths : ret.paths[f1])
        => \A f2 \in DOMAIN ret.paths :
              ~ret.paths[f2] => (~ret.transfer_ok /\ ~Exists(fs, f2))

\* C8: in every pair verify_checksums compares, the local path is the local
\* root joined with the suffix the server path has below the server root.
C8_SameSuffixOnBothSides ==
    (VerifyCalled /\ ret.outcome # "AttributeError") =>
        /\ Len(ret.local) = Len(ret.server)
        /\ \A i \in DOMAIN ret.server :
              LET suffix == Tail0(ret.server[i], Len(Coordinator.server))
              IN  /\ suffix # <<>>
                  /\ ret.server[i] = Coordinator.server \o suffix
                  /\ ret.local[i] = Coordinator.local \o suffix

\* C8 witness: a FolderSyncObj pair two levels below the roots
C8_Witness ==
    /\ VerifyCalled /\ ret.cls = "FolderSyncObj"
    /\ \E i \in DOMAIN ret.server :
          /\ Len(ret.server[i]) = Len(fso.server) + 2
          /\ ret.local[i] = LocalRoot \o <<"a", "x">>

\* C9: no coordinator object exists whose local or server root is not an
\* existing directory (construction with such a root is aborted).
C9_BadRootAbortsConstruction ==
    \A obj \in {fso, lsd} :
        obj.kind # "none" => (IsDir(fs, obj.local) /\ IsDir(fs, obj.server))

\* C10: when rm_new() has returned, none of the entries ls_new() reported
\* exists any more, in either tracking mode.
C10_RmNewRemovesEveryNewEntry ==
    ret.op = "rm_new" => \A p \in ret.new : ~Exists(fs, p)

\* the regular files get_folder_checksum is to enumerate in recursive mode
RecursiveFiles(f, folder, include_hidden) ==
    { p \in DOMAIN f : /\ IsPrefix(folder, p) /\ p # folder /\ IsFile(f, p)
                       /\ (include_hidden \/ ~IsHidden(p)) }

\* C11: in recursive mode the map of get_folder_checksum has exactly one
\* key per regular file of the subtree (non-hidden ones when include_hidden
\* is False), the key is the file's path with the folder's prefix stripped,
\* and distinct files have distinct keys.
C11_OneKeyPerFile ==
    (ret.op = "get_folder_checksum" /\ ret.recursive /\ ret.outcome = "returned") =>
        LET files == RecursiveFiles(fs, ret.folder, ret.include_hidden)
        IN  /\ DOMAIN ret.checksums = { Tail0(p, Len(ret.folder)) : p \in files }
            /\ Cardinality(DOMAIN ret.checksums) = Cardinality(files)

\* the hidden regular files within the reach of one call
HiddenFilesInScope(f, folder, recursive) ==
    { p \in DOMAIN f : /\ IsPrefix(folder, p) /\ p # folder /\ IsFile(f, p)
                       /\ IsHidden(p)
                       /\ (recursive \/ Len(p) = Len(folder) + 1) }

\* C12: with include_hidden False no key of the returned map refers to a
\* file whose final path component starts with '.', in recursive and in
\* non-recursive mode alike; with include_hidden True such files have keys.
C12_HiddenFilePolicy ==
    (ret.op = "get_folder_checksum" /\ ret.outcome = "returned") =>
        /\ ~ret.include_hidden =>
              \A k \in DOMAIN ret.checksums : k[Len(k)] \notin HiddenNames
        /\ ret.include_hidden =>
              \A p \in HiddenFilesInScope(fs, ret.folder, ret.recursive) :
                  Tail0(p, Len(ret.folder)) \in DOMAIN ret.checksums

\* C13: a run of verify_checksums that ends with transfer_ok = True, or
\* that was called with the remove-on-failure flag False, leaves every
\* entry under the local and the server root as it was and never consults
\* the confirmation oracle.
C13_NoRemovalUnlessFailedAndRequested ==
    [][ (/\ ret'.op = "verify_checksums"
         /\ ret.op # "verify_checksums"
         /\ \/ ret'.outcome = "returned" /\ ret'.transfer_ok
            \/ ~ret'.rm)
        => (fs' = fs /\ ret'.log = <<>>) ]_vars

\* a local/server-diff run found every pair intact, removal was asked for,
\* and the server entries it compared are there
C13_Witness ==
    /\ VerifyReturned
    /\ ret.cls = "FolderSyncObj_LocalServerDiff"
    /\ ret.transfer_ok /\ ret.rm
    /\ Len(ret.server) >= 1
    /\ \A i \in 1..Len(ret.server) : Exists(fs, ret.server[i])
    /\ ret.log = <<>>

\* how many pairs the loop of FolderSyncObj.verify_checksums handed to
\* compare_file_checksums: every recorded one, and the one that raised
Compared(r) ==
    LET done == Cardinality(DOMAIN r.paths)
    IN  IF r.outcome \in {"returned", "IndexError"} THEN done ELSE done + 1

\* C14: for every index i that FolderSyncObj.verify_checksums compares,
\* local[i] is the counterpart of server[i] (the same suffix below the two
\* roots), also when files are added or removed under the server root
\* between the two snapshots.
C14_PairedByIndexAreCounterparts ==
    (VerifyCalled /\ ret.cls = "FolderSyncObj") =>
        \A i \in 1..Compared(ret) :
            ret.local[i] = join(fso.local, relpath(ret.server[i], fso.server))

\* the server counterpart of entry i exists, and every regular file of the
\* local entry (the entry itself when it is a regular file) has a server
\* file with the same relative path and the same content, hence digest
Transferred(f, r, i) ==
    /\ Exists(f, r.server[i])
    /\ \A p \in DOMAIN f :
          (IsPrefix(r.local[i], p) /\ IsFile(f, p)) =>
              LET q == r.server[i] \o Tail0(p, Len(r.local[i]))
              IN  /\ IsFile(f, q)
                  /\ \A t \in ChecksumTypes :
                        hexdigest(t, f[q].data) = hexdigest(t, f[p].data)

\* C15: FolderSyncObj_LocalServerDiff.verify_checksums records a local-only
\* entry True only if its server counterpart exists and every regular file
\* of the entry has a server file with the same relative path and an equal
\* digest; otherwise the entry is not recorded True and transfer_ok is not
\* left True.
C15_TrueOnlyForTransferredEntries ==
    (VerifyReturned /\ ret.cls = "FolderSyncObj_LocalServerDiff" /\ ret.log = <<>>) =>
        \A i \in DOMAIN ret.local :
            ~Transferred(fs, ret, i) =>
                (~ret.paths[ret.local[i]] /\ ~ret.transfer_ok)
====
